---- MODULE Spec2Model ----
(***************************************************************************)
(* A model of hmwrk.py: the address book of records (name, phones,         *)
(* birthday), the validating field constructors, the upcoming-birthday     *)
(* scan, the command handlers behind the input_error decorator, and the    *)
(* command loop of main().                                                 *)
(*                                                                         *)
(* A Python string is a sequence of characters, a character is a           *)
(* one-element TLA+ string ("7", "a", "."); two characters outside ASCII   *)
(* are written by name: "sup2" is U+00B2 SUPERSCRIPT TWO and "ar1" is      *)
(* U+0661 ARABIC-INDIC DIGIT ONE.  A printed message is a sequence of      *)
(* fragments: the literal parts of the f-string and the characters of the  *)
(* values put into it.                                                     *)
(***************************************************************************)
EXTENDS Integers, Sequences, FiniteSets, TLC

VARIABLES
    book,    \* AddressBook.data: the entries <<key, record>> in insertion order
    before,  \* the directory as it was when the latest line was read
    mode,    \* "Running" while the loop of main() reads, "Terminated" after break
    line,    \* the latest line read, as the tokens of user_input.strip().split()
    out,     \* what the latest iteration printed
    scan,    \* the latest command's get_upcoming_birthdays call, if it made one
    typed,   \* the string handed to a field constructor
    field    \* the outcome of the latest field construction, if any

vars == <<book, before, mode, line, out, scan, typed, field>>

---------------------------------------------------------------------------
(* Characters and strings *)

AsciiDigits == {"0", "1", "2", "3", "4", "5", "6", "7", "8", "9"}

\* Characters for which str.isdigit() is true: the decimal digits of every
\* script, and the digits that are not decimal (superscripts and the like).
DecimalDigits == AsciiDigits \cup {"ar1"}
DigitChars == DecimalDigits \cup {"sup2"}

DigitVal(c) ==
    CASE c = "0" -> 0 [] c = "1" -> 1 [] c = "2" -> 2 [] c = "3" -> 3
      [] c = "4" -> 4 [] c = "5" -> 5 [] c = "6" -> 6 [] c = "7" -> 7
      [] c = "8" -> 8 [] c = "9" -> 9 [] c = "ar1" -> 1

DigitChar(n) ==
    CASE n = 0 -> "0" [] n = 1 -> "1" [] n = 2 -> "2" [] n = 3 -> "3"
      [] n = 4 -> "4" [] n = 5 -> "5" [] n = 6 -> "6" [] n = 7 -> "7"
      [] n = 8 -> "8" [] n = 9 -> "9"

\* str.isdigit(): every character is a digit and there is at least one.
IsDigit(s) == Len(s) > 0 /\ \A i \in 1..Len(s) : s[i] \in DigitChars

\* str.lower() on the ASCII letters, character by character.
UpperLetters ==
    <<"A", "B", "C", "D", "E", "F", "G", "H", "I", "J", "K", "L", "M",
      "N", "O", "P", "Q", "R", "S", "T", "U", "V", "W", "X", "Y", "Z">>
LowerLetters ==
    <<"a", "b", "c", "d", "e", "f", "g", "h", "i", "j", "k", "l", "m",
      "n", "o", "p", "q", "r", "s", "t", "u", "v", "w", "x", "y", "z">>

ToLower ==
    [c \in {UpperLetters[i] : i \in 1..Len(UpperLetters)} |->
        LowerLetters[CHOOSE i \in 1..Len(UpperLetters) : UpperLetters[i] = c]]

LowerChar(c) == IF c \in DOMAIN ToLower THEN ToLower[c] ELSE c

Lower(s) == [i \in 1..Len(s) |-> LowerChar(s[i])]

\* s[a..b] as a string (empty when a > b).
Slice(s, a, b) == [i \in 1..(b - a + 1) |-> s[a + i - 1]]

---------------------------------------------------------------------------
(* Field, Phone, Birthday *)

PhoneLen == 10

PhoneOnlyDigitsMsg == <<"Phone must contain only digits">>
PhoneLenMsg == <<"Phone must contain exactly 10 digits">>
BirthdayMsg == <<"Birthday must be in DD.MM.YYYY format">>

Made(kind, value) == [kind |-> kind, ok |-> TRUE, value |-> value, error |-> <<>>]
Raised(kind, msg) == [kind |-> kind, ok |-> FALSE, value |-> <<>>, error |-> msg]

\* Phone.__init__: ValueError unless value.isdigit() and len(value) == 10.
Phone(value) ==
    IF ~IsDigit(value) THEN Raised("Phone", PhoneOnlyDigitsMsg)
    ELSE IF Len(value) # PhoneLen THEN Raised("Phone", PhoneLenMsg)
    ELSE Made("Phone", value)

---------------------------------------------------------------------------
(* Dates: datetime.date, strptime and strftime with "%d.%m.%Y" *)

IsLeap(y) == (y % 4 = 0) /\ ((y % 100 # 0) \/ (y % 400 = 0))

DaysInMonth(y, m) ==
    IF m = 2 THEN (IF IsLeap(y) THEN 29 ELSE 28)
    ELSE IF m \in {4, 6, 9, 11} THEN 30 ELSE 31

\* date(y, m, d) exists.
ValidDate(y, m, d) ==
    /\ y >= 1 /\ y <= 9999
    /\ m >= 1 /\ m <= 12
    /\ d >= 1 /\ d <= DaysInMonth(y, m)

Date(y, m, d) == [year |-> y, month |-> m, day |-> d]

DaysBeforeYear(y) ==
    ((y - 1) * 365) + ((y - 1) \div 4) - ((y - 1) \div 100) + ((y - 1) \div 400)

RECURSIVE DaysBeforeMonth(_, _)
DaysBeforeMonth(y, m) ==
    IF m = 1 THEN 0 ELSE DaysBeforeMonth(y, m - 1) + DaysInMonth(y, m - 1)

\* date.toordinal(): 1 for 0001-01-01.
ToOrdinal(dt) == DaysBeforeYear(dt.year) + DaysBeforeMonth(dt.year, dt.month) + dt.day

\* date.weekday(): Monday is 0, Saturday 5, Sunday 6.
Weekday(dt) == (ToOrdinal(dt) + 6) % 7

\* a < b on dates.
DateLess(a, b) ==
    \/ a.year < b.year
    \/ a.year = b.year /\ a.month < b.month
    \/ a.year = b.year /\ a.month = b.month /\ a.day < b.day

NextDay(dt) ==
    IF dt.day < DaysInMonth(dt.year, dt.month) THEN Date(dt.year, dt.month, dt.day + 1)
    ELSE IF dt.month < 12 THEN Date(dt.year, dt.month + 1, 1)
    ELSE Date(dt.year + 1, 1, 1)

\* dt + timedelta(days=n), n >= 0.
RECURSIVE AddDays(_, _)
AddDays(dt, n) == IF n = 0 THEN dt ELSE AddDays(NextDay(dt), n - 1)

\* The %d directive of strptime: 3[0-1]|[1-2]\d|0[1-9]|[1-9]| [1-9], where \d
\* stands for a decimal digit of any script.
DayText(w) ==
    \/ /\ Len(w) = 2
       /\ \/ w[1] = "3" /\ w[2] \in {"0", "1"}
          \/ w[1] \in {"1", "2"} /\ w[2] \in DecimalDigits
          \/ w[1] \in {"0", " "} /\ w[2] \in AsciiDigits \ {"0"}
    \/ Len(w) = 1 /\ w[1] \in AsciiDigits \ {"0"}

\* The %m directive of strptime: 1[0-2]|0[1-9]|[1-9]
MonthText(w) ==
    \/ /\ Len(w) = 2
       /\ \/ w[1] = "1" /\ w[2] \in {"0", "1", "2"}
          \/ w[1] = "0" /\ w[2] \in AsciiDigits \ {"0"}
    \/ Len(w) = 1 /\ w[1] \in AsciiDigits \ {"0"}

\* The %Y directive of strptime: \d\d\d\d
YearText(w) == Len(w) = 4 /\ \A i \in 1..4 : w[i] \in DecimalDigits

\* int() of the text a directive matched.
RECURSIVE ToInt(_)
ToInt(w) ==
    IF Len(w) = 0 THEN 0
    ELSE IF w[1] = " " THEN ToInt(Tail(w))
    ELSE ToInt(Slice(w, 1, Len(w) - 1)) * 10 + DigitVal(w[Len(w)])

\* The length of the text %d takes at the start of s, 0 when it does not
\* match there: the regular expression tries its two-character alternatives
\* first, and the "." that follows settles which one stands.
DayLen(s) ==
    IF 3 <= Len(s) /\ s[3] = "." /\ DayText(Slice(s, 1, 2)) THEN 2
    ELSE IF 2 <= Len(s) /\ s[2] = "." /\ DayText(Slice(s, 1, 1)) THEN 1
    ELSE 0

\* The same for %m at position p of s.
MonthLen(s, p) ==
    IF p + 2 <= Len(s) /\ s[p + 2] = "." /\ MonthText(Slice(s, p, p + 1)) THEN 2
    ELSE IF p + 1 <= Len(s) /\ s[p + 1] = "." /\ MonthText(Slice(s, p, p)) THEN 1
    ELSE 0

NoDate == [ok |-> FALSE, date |-> Date(0, 0, 0)]

\* datetime.strptime(s, "%d.%m.%Y").date(), ok = FALSE for ValueError: the
\* whole of s has to match day "." month "." year, and the date has to exist.
Strptime(s) ==
    LET dl == DayLen(s)
        ml == IF dl = 0 THEN 0 ELSE MonthLen(s, dl + 2)
        ys == dl + ml + 3
        d == ToInt(Slice(s, 1, dl))
        m == ToInt(Slice(s, dl + 2, dl + ml + 1))
        y == ToInt(Slice(s, ys, Len(s)))
    IN  IF dl = 0 \/ ml = 0 THEN NoDate
        ELSE IF ~YearText(Slice(s, ys, Len(s))) THEN NoDate
        ELSE IF ~ValidDate(y, m, d) THEN NoDate
        ELSE [ok |-> TRUE, date |-> Date(y, m, d)]

\* The decimal digits of n, none for 0.
RECURSIVE Decimal(_)
Decimal(n) == IF n = 0 THEN <<>> ELSE Append(Decimal(n \div 10), DigitChar(n % 10))

TwoDigits(n) == <<DigitChar(n \div 10), DigitChar(n % 10)>>

\* date.strftime("%d.%m.%Y"): day and month zero-padded to two digits, the
\* year as the C library prints it, without padding.
Strftime(dt) == TwoDigits(dt.day) \o <<".">> \o TwoDigits(dt.month) \o <<".">> \o Decimal(dt.year)

\* Birthday.__init__: ValueError unless strptime accepts the value; the
\* string itself is stored.
Birthday(value) ==
    IF Strptime(value).ok THEN Made("Birthday", value)
    ELSE Raised("Birthday", BirthdayMsg)

---------------------------------------------------------------------------
(* Record and AddressBook *)

\* Record.__init__(name): no phones, no birthday.  The birthday is <<>> for
\* None and <<value>> for a Birthday.
Record(name) == [name |-> name, phones |-> <<>>, birthday |-> <<>>]

Entry(rec) == [key |-> rec.name, record |-> rec]

\* The position of the key in the dict, 0 when it is absent.
KeyIndex(b, name) ==
    IF \E i \in 1..Len(b) : b[i].key = name
    THEN CHOOSE i \in 1..Len(b) : b[i].key = name
    ELSE 0

\* AddressBook.find: self.data.get(name).
Find(b, name) == KeyIndex(b, name)

\* AddressBook.add_record: self.data[record.name.value] = record; an existing
\* key keeps its place in the dict, a new one goes last.
AddRecord(b, rec) ==
    IF KeyIndex(b, rec.name) # 0
    THEN [b EXCEPT ![KeyIndex(b, rec.name)] = Entry(rec)]
    ELSE Append(b, Entry(rec))

\* The record stored at position i, replaced (it is mutated in place).
SetRecord(b, i, rec) == [b EXCEPT ![i].record = rec]

\* Record.find_phone: the first phone whose value is the one asked for, as
\* its position in self.phones, 0 for None.
FindPhone(rec, phone) ==
    IF \E i \in 1..Len(rec.phones) : rec.phones[i] = phone
    THEN CHOOSE i \in 1..Len(rec.phones) :
            /\ rec.phones[i] = phone
            /\ \A j \in 1..(i - 1) : rec.phones[j] # phone
    ELSE 0

\* What a call leaves behind: the exception it raised ("none" when it
\* returned), the message of the exception or the value returned, and the
\* object it worked on as the call left it.
Returned(obj, value) == [exc |-> "none", value |-> value, obj |-> obj]
Raise(exc, obj, msg) == [exc |-> exc, value |-> msg, obj |-> obj]

\* add_phone putting the new phone first.
AddPhoneFirst(rec, phone) ==
    IF Phone(phone).ok
    THEN Returned([rec EXCEPT !.phones = <<Phone(phone).value>> \o @], <<>>)
    ELSE Raise("ValueError", rec, Phone(phone).error)

\* Record.add_phone: self.phones.append(Phone(phone)).
AddPhone(rec, phone) ==
    IF Phone(phone).ok
    THEN Returned([rec EXCEPT !.phones = Append(@, Phone(phone).value)], <<>>)
    ELSE Raise("ValueError", rec, Phone(phone).error)

\* The last phone whose value is the one asked for.
FindPhoneLast(rec, phone) ==
    IF \E i \in 1..Len(rec.phones) : rec.phones[i] = phone
    THEN CHOOSE i \in 1..Len(rec.phones) :
            /\ rec.phones[i] = phone
            /\ \A j \in (i + 1)..Len(rec.phones) : rec.phones[j] # phone
    ELSE 0

\* edit_phone replacing the last match.
EditPhoneLast(rec, old_phone, new_phone) ==
    IF FindPhoneLast(rec, old_phone) = 0
    THEN Raise("ValueError", rec, <<"Phone not found">>)
    ELSE IF ~Phone(new_phone).ok
    THEN Raise("ValueError", rec, <<"Invalid new phone: ">> \o Phone(new_phone).error)
    ELSE Returned([rec EXCEPT !.phones[FindPhoneLast(rec, old_phone)] = Phone(new_phone).value],
                  <<>>)

\* Record.edit_phone: the first match is replaced where it stands.
EditPhone(rec, old_phone, new_phone) ==
    IF FindPhone(rec, old_phone) = 0
    THEN Raise("ValueError", rec, <<"Phone not found">>)
    ELSE IF ~Phone(new_phone).ok
    THEN Raise("ValueError", rec, <<"Invalid new phone: ">> \o Phone(new_phone).error)
    ELSE Returned([rec EXCEPT !.phones[FindPhone(rec, old_phone)] = Phone(new_phone).value],
                  <<>>)

\* Record.add_birthday: self.birthday = Birthday(birthday).
RecordAddBirthday(rec, birthday) ==
    IF Birthday(birthday).ok
    THEN Returned([rec EXCEPT !.birthday = <<Birthday(birthday).value>>], <<>>)
    ELSE Raise("ValueError", rec, Birthday(birthday).error)

\* sep.join(parts)
RECURSIVE Join(_, _)
Join(sep, parts) ==
    IF Len(parts) = 0 THEN <<>>
    ELSE IF Len(parts) = 1 THEN parts[1]
    ELSE parts[1] \o sep \o Join(sep, Tail(parts))

\* Record.__str__
RecordStr(rec) ==
    <<"[">> \o rec.name \o <<"]: [">>
    \o (IF Len(rec.phones) > 0 THEN Join(<<"; ">>, rec.phones) ELSE <<"No phones">>)
    \o <<"], birthday: [">>
    \o (IF Len(rec.birthday) > 0 THEN rec.birthday[1] ELSE <<"No birthday">>)
    \o <<"]">>

\* AddressBook.__str__
BookStr(b) == Join(<<"\n">>, [i \in 1..Len(b) |-> RecordStr(b[i].record)])

\* date.replace(year=y): ValueError when the day does not exist in that year.
ReplaceYear(dt, y) ==
    IF ValidDate(y, dt.month, dt.day) THEN [ok |-> TRUE, date |-> Date(y, dt.month, dt.day)]
    ELSE NoDate

\* The weekend rule with Saturday moved one day only.
ShiftWeekendSaturdayOne(dt) ==
    IF Weekday(dt) = 5 THEN AddDays(dt, 1)
    ELSE IF Weekday(dt) = 6 THEN AddDays(dt, 1)
    ELSE dt

\* The weekend rule of get_upcoming_birthdays: Saturday + 2, Sunday + 1.
ShiftWeekend(dt) ==
    IF Weekday(dt) = 5 THEN AddDays(dt, 2)
    ELSE IF Weekday(dt) = 6 THEN AddDays(dt, 1)
    ELSE dt

\* congratulation_date as the code settles it: this year's date, and next
\* year's when that one is before today; ok = FALSE when a replace() raises.
AfterToday(this, today) ==
    IF this.ok /\ DateLess(this.date, today) THEN ReplaceYear(this.date, today.year + 1)
    ELSE this

CongratulationDate(bday, today) == AfterToday(ReplaceYear(bday, today.year), today)

\* The window test on delta_days and the dict that is appended: hit when
\* the record is appended.
WindowTest(rec, delta, days, congratulation_date) ==
    IF 0 <= delta /\ delta <= days
    THEN [ok |-> TRUE, hit |-> TRUE,
          item |-> [name |-> rec.name,
                    birthday |-> Strftime(ShiftWeekend(congratulation_date))]]
    ELSE [ok |-> TRUE, hit |-> FALSE, item |-> <<>>]

Appended(rec, today, days, next) ==
    IF ~next.ok THEN [ok |-> FALSE, hit |-> FALSE, item |-> <<>>]
    ELSE WindowTest(rec, ToOrdinal(next.date) - ToOrdinal(today), days, next.date)

\* One pass of the loop body of get_upcoming_birthdays over a record with a
\* birthday.
Upcoming(rec, today, days) ==
    Appended(rec, today, days, CongratulationDate(Strptime(rec.birthday[1]).date, today))

\* AddressBook.get_upcoming_birthdays from entry i on, acc being
\* upcoming_birthdays so far; ok = FALSE when the ValueError of a replace()
\* leaves the method.  A record without a birthday is passed over.
RECURSIVE ScanFrom(_, _, _, _, _)
ScanNext(b, i, today, days, acc, u) ==
    IF ~u.ok THEN [ok |-> FALSE, entries |-> <<>>]
    ELSE ScanFrom(b, i + 1, today, days, IF u.hit THEN Append(acc, u.item) ELSE acc)

ScanFrom(b, i, today, days, acc) ==
    IF i > Len(b) THEN [ok |-> TRUE, entries |-> acc]
    ELSE ScanNext(b, i, today, days, acc,
                  IF Len(b[i].record.birthday) = 0
                  THEN [ok |-> TRUE, hit |-> FALSE, item |-> <<>>]
                  ELSE Upcoming(b[i].record, today, days))

GetUpcomingBirthdays(b, today, days) == ScanFrom(b, 1, today, days, <<>>)

---------------------------------------------------------------------------
(* The command handlers and input_error *)

\* The default of get_upcoming_birthdays(days=7), which birthdays() uses.
Window == 7

\* The most phones the modelled directory holds, all records together.
MaxPhones == 3

UsageAddBirthday == <<"Invalid input. Usage: add-birthday [name] [DD.MM.YYYY]">>
UsageAdd == <<"Invalid input. Usage: add [name] [phone]">>
UsageChange == <<"Invalid input. Usage: change [name] [old_phone] [new_phone]">>
UsageShowBirthday == <<"Invalid input. Usage: show-birthday [name]">>
UsagePhone == <<"Invalid input. Usage: phone [name]">>
NotEnoughArgs == <<"Not enough arguments. Please try again.">>
DayOutOfRange == <<"day is out of range for month">>

\* repr() of a list of strings: ['a', 'b']
ReprList(args) ==
    <<"[">> \o Join(<<", ">>, [i \in 1..Len(args) |-> <<"'">> \o args[i] \o <<"'">>]) \o <<"]">>

\* The body of add(args, book).
AddBody(args, b) ==
    IF Len(args) # 2 THEN Raise("IndexError", b, <<>>)
    ELSE LET name == args[1]
             phone == args[2]
             i == Find(b, name)
             added == AddPhone(IF i # 0 THEN b[i].record ELSE Record(name), phone)
         IN  IF added.exc # "none" THEN Raise(added.exc, b, added.value)
             ELSE Returned(IF i # 0 THEN SetRecord(b, i, added.obj) ELSE AddRecord(b, added.obj),
                           <<"Contact [">> \o name \o <<"] added successfully.">>)

\* The body of change(args, book).
ChangeBody(args, b) ==
    IF Len(args) # 3 THEN Raise("IndexError", b, <<>>)
    ELSE LET name == args[1]
             i == Find(b, name)
             edited == EditPhone(b[i].record, args[2], args[3])
         IN  IF i = 0 THEN Raise("KeyError", b, <<>>)
             ELSE IF edited.exc # "none" THEN Raise(edited.exc, b, edited.value)
             ELSE Returned(SetRecord(b, i, edited.obj),
                           <<"Phone for [">> \o name \o <<"] updated successfully.">>)

\* The body of phone(args, book): only args[0] is read.
PhoneBody(args, b) ==
    IF Len(args) = 0 THEN Raise("IndexError", b, <<>>)
    ELSE LET name == args[1]
             i == Find(b, name)
         IN  IF i = 0 \/ Len(b[i].record.phones) = 0
             THEN Returned(b, <<"No phones found for [">> \o name \o <<"]">>)
             ELSE Returned(b, <<"[">> \o b[i].record.name \o <<"]: ">>
                              \o Join(<<", ">>, b[i].record.phones))

\* The body of all_contacts(book).
AllContactsBody(b) ==
    IF Len(b) = 0 THEN Returned(b, <<"No contacts available.">>)
    ELSE Returned(b, BookStr(b))

\* The body of add_birthday(args, book): a missing record is created and
\* stored before the birthday is validated.
AddBirthdayBody(args, b) ==
    IF Len(args) # 2 THEN Raise("IndexError", b, <<>>)
    ELSE LET name == args[1]
             withRec == IF Find(b, name) = 0 THEN AddRecord(b, Record(name)) ELSE b
             i == Find(withRec, name)
             set == RecordAddBirthday(withRec[i].record, args[2])
         IN  IF set.exc # "none" THEN Raise(set.exc, withRec, set.value)
             ELSE Returned(SetRecord(withRec, i, set.obj),
                           <<"Birthday for [">> \o name \o <<"] added successfully.">>)

\* The body of show_birthday(args, book).
ShowBirthdayBody(args, b) ==
    IF Len(args) # 1 THEN Raise("IndexError", b, <<>>)
    ELSE LET name == args[1]
             i == Find(b, name)
         IN  IF i = 0 THEN Raise("KeyError", b, <<>>)
             ELSE IF Len(b[i].record.birthday) = 0
             THEN Returned(b, <<"Birthday for [">> \o name \o <<"] not found">>)
             ELSE Returned(b, b[i].record.birthday[1])

\* result.strip() of the lines "<name> congratulate in <date>\n".
BirthdaysText(upcoming) ==
    Join(<<"\n">>, [i \in 1..Len(upcoming) |->
                       upcoming[i].name \o <<" congratulate in ">> \o upcoming[i].birthday])

\* What birthdays(args, book) returns for the list upcoming, or raises when
\* the scan raised; the call of the scan is kept beside it.
BirthdaysReturn(b, today, upcoming) ==
    [exc |-> IF upcoming.ok THEN "none" ELSE "ValueError",
     value |-> IF ~upcoming.ok THEN DayOutOfRange
               ELSE IF Len(upcoming.entries) = 0 THEN <<"No upcoming birthdays">>
               ELSE BirthdaysText(upcoming.entries),
     obj |-> b,
     call |-> [today |-> today, days |-> Window, ok |-> upcoming.ok,
               entries |-> upcoming.entries]]

\* The body of birthdays(args, book), today being datetime.now().date().
BirthdaysBody(args, b, today) ==
    BirthdaysReturn(b, today, GetUpcomingBirthdays(b, today, Window))

\* The IndexError branch of input_error, by func.__name__.
UsageOf(func) ==
    CASE func = "add_birthday" -> UsageAddBirthday
      [] func = "add" -> UsageAdd
      [] func = "change" -> UsageChange
      [] func = "show_birthday" -> UsageShowBirthday
      [] func = "phone" -> UsagePhone
      [] OTHER -> NotEnoughArgs

\* input_error(func)(args, book): the value func returned, or the message
\* its exception is turned into; args is the handler's first positional
\* argument, the list of the command's arguments.
InputError(func, args, r) ==
    CASE r.exc = "none" -> r.value
      [] r.exc = "ValueError" -> r.value
      [] r.exc = "KeyError" -> <<"Contact [">> \o ReprList(args) \o <<"] not found.">>
      [] r.exc = "IndexError" -> UsageOf(func)

---------------------------------------------------------------------------
(* parse_input and main *)

\* The words of the command table.  A command string is the sequence of its
\* words: "exit" is <<wExit>>, "upcoming birthdays" is <<wUpcoming, wBirthdays>>.
wClose == <<"c", "l", "o", "s", "e">>
wExit == <<"e", "x", "i", "t">>
wBye == <<"b", "y", "e">>
wHello == <<"h", "e", "l", "l", "o">>
wHi == <<"h", "i">>
wAdd == <<"a", "d", "d">>
wNew == <<"n", "e", "w">>
wChange == <<"c", "h", "a", "n", "g", "e">>
wEdit == <<"e", "d", "i", "t">>
wPhone == <<"p", "h", "o", "n", "e">>
wShow == <<"s", "h", "o", "w">>
wAll == <<"a", "l", "l">>
wShowAll == <<"s", "h", "o", "w", "-", "a", "l", "l">>
wAddBirthday == <<"a", "d", "d", "-", "b", "i", "r", "t", "h", "d", "a", "y">>
wNewBirthday == <<"n", "e", "w", "-", "b", "i", "r", "t", "h", "d", "a", "y">>
wAddBDay == <<"a", "d", "d", "-", "b", "-", "d", "a", "y">>
wShowBirthday == <<"s", "h", "o", "w", "-", "b", "i", "r", "t", "h", "d", "a", "y">>
wBirthday == <<"b", "i", "r", "t", "h", "d", "a", "y">>
wShowBDay == <<"s", "h", "o", "w", "-", "b", "-", "d", "a", "y">>
wBirthdays == <<"b", "i", "r", "t", "h", "d", "a", "y", "s">>
wUpcoming == <<"u", "p", "c", "o", "m", "i", "n", "g">>
wBDays == <<"b", "-", "d", "a", "y", "s">>

\* The exit verbs with "bye" left out.
ExitCommandsNoBye == {<<wClose>>, <<wExit>>}

ExitCommands == {<<wClose>>, <<wExit>>, <<wBye>>}
HelloCommands == {<<wHello>>, <<wHi>>}
AddCommands == {<<wAdd>>, <<wNew>>}
ChangeCommands == {<<wChange>>, <<wEdit>>}
PhoneCommands == {<<wPhone>>, <<wShow>>}
AllCommands == {<<wAll>>, <<wShowAll>>}
AddBirthdayCommands == {<<wAddBirthday>>, <<wNewBirthday>>, <<wAddBDay>>}
ShowBirthdayCommands == {<<wShowBirthday>>, <<wBirthday>>, <<wShowBDay>>}
BirthdaysCommands == {<<wBirthdays>>, <<wUpcoming, wBirthdays>>, <<wUpcoming, wBDays>>}

\* The list two_word_command is looked up in.
TwoWordCommands ==
    {<<wAddBirthday>>, <<wNewBirthday>>, <<wAddBDay>>, <<wShowBirthday>>, <<wBirthday>>,
     <<wShowBDay>>, <<wBirthdays>>, <<wUpcoming, wBirthdays>>, <<wUpcoming, wBDays>>}

\* parse_input(user_input), parts being user_input.strip().split().
ParseInput(parts) ==
    IF Len(parts) = 0 THEN [command |-> <<>>, args |-> <<>>]
    ELSE IF Len(parts) > 1 /\ <<Lower(parts[1]), Lower(parts[2])>> \in TwoWordCommands
    THEN [command |-> <<Lower(parts[1]), Lower(parts[2])>>,
          args |-> Slice(parts, 3, Len(parts))]
    ELSE [command |-> <<Lower(parts[1])>>, args |-> Tail(parts)]

Banner == <<"Type 'hello' or 'hi' to display the commands.">>
GoodBye == <<"Good bye!">>
HelpText == <<"Hi! I'm AddressBook and b-day bot", "This your helps commands: ",
              "How can I help you?">>
InvalidCommand == <<"Invalid command.">>

---------------------------------------------------------------------------
(* The lines typed and the clock *)

Ann == <<"A", "n", "n">>
Bob == <<"B", "o", "b">>
PhoneA == <<"1", "2", "3", "4", "5", "6", "7", "8", "9", "0">>
PhoneB == <<"0", "9", "8", "7", "6", "5", "4", "3", "2", "1">>
PhoneSup == <<"1", "2", "3", "4", "5", "sup2", "7", "8", "9", "0">>
PhoneShort == <<"1", "2", "3", "4", "5">>
Feb29 == <<"2", "9", ".", "0", "2", ".", "2", "0", "2", "4">>
Feb31 == <<"3", "1", ".", "0", "2", ".", "2", "0", "0", "0">>
Dec31 == <<"3", "1", ".", "1", "2", ".", "1", "9", "9", "9">>
Mar1Short == <<"1", ".", "0", "3", ".", "2", "0", "0", "0">>
Jan4 == <<"0", "4", ".", "0", "1", ".", "1", "9", "9", "0">>
wEXIT == <<"E", "X", "I", "T">>
wAddCap == <<"A", "d", "d">>
wUpcomingCap == <<"U", "p", "c", "o", "m", "i", "n", "g">>
wBirthdaysCap == <<"B", "I", "R", "T", "H", "D", "A", "Y", "S">>
wFoo == <<"f", "o", "o">>

Lines ==
    { <<wClose>>, <<wExit>>, <<wBye>>, <<wEXIT, Ann>>,
      <<wHello>>, <<wHi>>,
      <<>>, <<wFoo>>, <<wUpcoming, Ann>>, <<Ann, wExit>>,
      <<wAdd>>, <<wAdd, Ann>>, <<wAdd, Ann, PhoneA>>, <<wAdd, Ann, PhoneB>>,
      <<wAdd, Ann, PhoneShort>>, <<wAddCap, Bob, PhoneSup>>, <<wAdd, Bob, PhoneB>>, <<wAdd, Bob, PhoneShort>>,
      <<wNew, Ann, PhoneA, PhoneB>>,
      <<wChange, Ann>>, <<wChange, Ann, PhoneA, PhoneB>>, <<wChange, Ann, PhoneB, PhoneA>>,
      <<wChange, Ann, PhoneA, PhoneShort>>, <<wChange, Bob, PhoneA, PhoneB>>,
      <<wEdit, Ann, PhoneA, PhoneB, PhoneA>>,
      <<wPhone>>, <<wPhone, Ann>>, <<wShow, Bob>>, <<wPhone, Ann, PhoneA>>,
      <<wAll>>, <<wShowAll, Ann>>,
      <<wAddBirthday, Ann>>, <<wAddBirthday, Ann, Feb29>>, <<wAddBirthday, Bob, Feb31>>,
      <<wNewBirthday, Ann, Feb31>>, <<wAddBDay, Ann, Feb29, PhoneA>>,
      <<wShowBirthday>>, <<wShowBirthday, Ann>>, <<wBirthday, Bob>>,
      <<wShowBDay, Ann, PhoneA>>,
      <<wBirthdays>>, <<wUpcoming, wBDays>>, <<wUpcomingCap, wBirthdaysCap, Ann>> }

\* The days datetime.now().date() gives in the runs of the command loop.
Todays == {Date(2024, 2, 27), Date(2025, 2, 27)}

\* The lines and the days of the runs that scan birthdays: the days around
\* the turn of the year and around the end of February, in a leap year and
\* in the years beside it.
ScanLines ==
    { <<wAddBirthday, Ann, Feb29>>, <<wAddBirthday, Ann, Jan4>>,
      <<wAddBirthday, Ann, Feb31>>, <<wAddBirthday, Bob, Dec31>>,
      <<wAddBirthday, Bob, Mar1Short>>, <<wBirthdays>> }

ScanDays ==
    {dt \in [year : {2023, 2024, 2025}, month : {12, 1, 2, 3}, day : 1..31] :
        /\ ValidDate(dt.year, dt.month, dt.day)
        /\ \/ dt.month = 12 /\ dt.day >= 20
           \/ dt.month = 1 /\ dt.day <= 8
           \/ dt.month = 2 /\ dt.day >= 18
           \/ dt.month = 3 /\ dt.day <= 8
        /\ ~(dt.year = 2023 /\ dt.month < 12)
        /\ ~(dt.year = 2025 /\ dt.month = 12)}

---------------------------------------------------------------------------
(* One iteration of the loop of main() *)

\* The number of phones stored in the directory.
RECURSIVE PhoneCount(_)
PhoneCount(b) == IF Len(b) = 0 THEN 0 ELSE Len(b[1].record.phones) + PhoneCount(Tail(b))

\* input() while the loop runs.
Read(l) ==
    /\ mode = "Running"
    /\ line' = l
    /\ before' = book
    /\ UNCHANGED <<typed, field>>

\* A handler's call and the print of what input_error(func) returns.
Handle(func, args, r) ==
    /\ book' = r.obj
    /\ out' = InputError(func, args, r)
    /\ mode' = "Running"

HandleScan(func, args, r) ==
    /\ Handle(func, args, r)
    /\ scan' = <<r.call>>

Exit(l) ==
    /\ ParseInput(l).command \in ExitCommands
    /\ Read(l)
    /\ out' = GoodBye
    /\ mode' = "Terminated"
    /\ UNCHANGED book
    /\ scan' = <<>>

Hello(l) ==
    /\ ParseInput(l).command \in HelloCommands
    /\ Read(l)
    /\ out' = HelpText
    /\ mode' = "Running"
    /\ UNCHANGED book
    /\ scan' = <<>>

add(l) ==
    /\ ParseInput(l).command \in AddCommands
    /\ Read(l)
    /\ Handle("add", ParseInput(l).args, AddBody(ParseInput(l).args, book))
    /\ PhoneCount(book') <= MaxPhones
    /\ scan' = <<>>

change(l) ==
    /\ ParseInput(l).command \in ChangeCommands
    /\ Read(l)
    /\ Handle("change", ParseInput(l).args, ChangeBody(ParseInput(l).args, book))
    /\ scan' = <<>>

phone(l) ==
    /\ ParseInput(l).command \in PhoneCommands
    /\ Read(l)
    /\ Handle("phone", ParseInput(l).args, PhoneBody(ParseInput(l).args, book))
    /\ scan' = <<>>

all_contacts(l) ==
    /\ ParseInput(l).command \in AllCommands
    /\ Read(l)
    /\ Handle("all_contacts", <<>>, AllContactsBody(book))
    /\ scan' = <<>>

add_birthday(l) ==
    /\ ParseInput(l).command \in AddBirthdayCommands
    /\ Read(l)
    /\ Handle("add_birthday", ParseInput(l).args, AddBirthdayBody(ParseInput(l).args, book))
    /\ scan' = <<>>

show_birthday(l) ==
    /\ ParseInput(l).command \in ShowBirthdayCommands
    /\ Read(l)
    /\ Handle("show_birthday", ParseInput(l).args, ShowBirthdayBody(ParseInput(l).args, book))
    /\ scan' = <<>>

birthdays(l, today) ==
    /\ ParseInput(l).command \in BirthdaysCommands
    /\ Read(l)
    /\ HandleScan("birthdays", ParseInput(l).args,
                  BirthdaysBody(ParseInput(l).args, book, today))

Invalid(l) ==
    /\ ParseInput(l).command \notin
          (ExitCommands \cup HelloCommands \cup AddCommands \cup ChangeCommands
           \cup PhoneCommands \cup AllCommands \cup AddBirthdayCommands
           \cup ShowBirthdayCommands \cup BirthdaysCommands)
    /\ Read(l)
    /\ out' = InvalidCommand
    /\ mode' = "Running"
    /\ UNCHANGED book
    /\ scan' = <<>>

---------------------------------------------------------------------------
(* The command loop *)

Init ==
    /\ book = <<>>
    /\ before = <<>>
    /\ mode = "Running"
    /\ line = <<>>
    /\ out = Banner
    /\ scan = <<>>
    /\ typed = <<>>
    /\ field = <<>>

Next ==
    \E l \in Lines :
        \/ Exit(l)
        \/ Hello(l)
        \/ add(l)
        \/ change(l)
        \/ phone(l)
        \/ all_contacts(l)
        \/ add_birthday(l)
        \/ show_birthday(l)
        \/ \E t \in Todays : birthdays(l, t)
        \/ Invalid(l)

Spec == Init /\ [][Next]_vars

---------------------------------------------------------------------------
(* The birthday scan on the days around the turn of the year and the end of
   February *)

NextScan ==
    \E l \in ScanLines :
        \/ add_birthday(l)
        \/ \E t \in ScanDays : birthdays(l, t)

SpecScan == Init /\ [][NextScan]_vars

---------------------------------------------------------------------------
(* Phone construction on typed strings *)

MaxTyped == 11

PhoneAlphabet == {"7", "x", "sup2"}

TypeChar(c) ==
    /\ Len(typed) < MaxTyped
    /\ typed' = Append(typed, c)
    /\ field' = <<>>
    /\ UNCHANGED <<book, before, mode, line, out, scan>>

NewPhone ==
    /\ field = <<>>
    /\ field' = <<Phone(typed)>>
    /\ UNCHANGED <<book, before, mode, line, out, scan, typed>>

NextPhone == (\E c \in PhoneAlphabet : TypeChar(c)) \/ NewPhone

SpecPhone == Init /\ [][NextPhone]_vars

---------------------------------------------------------------------------
(* Birthday construction on strings of the shape day, separator, month,
   separator, year, tail *)

DayParts == {<<"1">>, <<"0", "1">>, <<"9">>, <<"2", "9">>, <<"3", "0">>, <<"3", "1">>, <<"3", "2">>, <<"0", "0">>, <<"0", "0", "1">>, <<"1", "ar1">>}
MonthParts == {<<"1">>, <<"0", "2">>, <<"2">>, <<"0", "4">>, <<"1", "2">>, <<"1", "3">>, <<"0", "0">>, <<"0", "0", "2">>}
YearParts == {<<"2", "0", "0", "0">>, <<"2", "0", "2", "3">>, <<"2", "0", "2", "4">>, <<"1", "9", "0", "0">>, <<"1", "9", "9", "9">>, <<"9", "9">>, <<"2", "0", "0", "0", "0">>, <<"0", "0", "0", "0">>}
Separators == {<<".">>, <<"-">>}
Tails == {<<>>, <<"x">>}

BirthdayInputs ==
    {d \o a \o m \o b \o y \o t :
        d \in DayParts, a \in Separators, m \in MonthParts, b \in Separators,
        y \in YearParts, t \in Tails}

InitBirthday ==
    /\ book = <<>>
    /\ before = <<>>
    /\ mode = "Running"
    /\ line = <<>>
    /\ out = Banner
    /\ scan = <<>>
    /\ typed \in BirthdayInputs
    /\ field = <<>>

NewBirthday ==
    /\ field = <<>>
    /\ field' = <<Birthday(typed)>>
    /\ UNCHANGED <<book, before, mode, line, out, scan, typed>>

SpecBirthday == InitBirthday /\ [][NewBirthday]_vars

---------------------------------------------------------------------------
(* What the claims speak of *)

\* The command and the arguments of the latest line.
command == ParseInput(line).command
args == ParseInput(line).args

\* A line has been read and answered.
Answered == out # Banner

\* A string of exactly 10 decimal digits.
TenDecimalDigits(s) == Len(s) = 10 /\ \A i \in 1..Len(s) : s[i] \in DecimalDigits

\* A valid calendar date written DD.MM.YYYY: two digits, ".", two digits,
\* ".", four digits, naming a day that exists.
IsDDMMYYYY(s) ==
    /\ Len(s) = 10
    /\ s[3] = "." /\ s[6] = "."
    /\ \A i \in {1, 2, 4, 5, 7, 8, 9, 10} : s[i] \in AsciiDigits
    /\ LET d == 10 * DigitVal(s[1]) + DigitVal(s[2])
           m == 10 * DigitVal(s[4]) + DigitVal(s[5])
           y == 1000 * DigitVal(s[7]) + 100 * DigitVal(s[8]) + 10 * DigitVal(s[9])
                 + DigitVal(s[10])
       IN  /\ y >= 1 /\ m \in 1..12 /\ d >= 1
           /\ d <= (IF m = 2 THEN (IF y % 4 = 0 /\ (y % 100 # 0 \/ y % 400 = 0) THEN 29 ELSE 28)
                    ELSE IF m \in {4, 6, 9, 11} THEN 30 ELSE 31)

\* The position of the record called name in the directory b, 0 when there
\* is none.
At(b, name) ==
    IF \E i \in 1..Len(b) : b[i].record.name = name
    THEN CHOOSE i \in 1..Len(b) : b[i].record.name = name
    ELSE 0

\* The next occurrence of the birthday bday on or after today: the day and
\* month of bday in the first year from today's on in which that day
\* exists and is not before today.
NextOccurrence(bday, today) ==
    LET y == CHOOSE y \in today.year..(today.year + 8) :
                /\ ValidDate(y, bday.month, bday.day)
                /\ ~DateLess(Date(y, bday.month, bday.day), today)
                /\ \A z \in today.year..(y - 1) :
                      ~(/\ ValidDate(z, bday.month, bday.day)
                        /\ ~DateLess(Date(z, bday.month, bday.day), today))
    IN  Date(y, bday.month, bday.day)

\* The days from the day a to the day b.
DaysFromTo(a, b) == ToOrdinal(b) - ToOrdinal(a)

\* Saturday and Sunday, counted from Saturday 6 January 2024.
IsSaturday(dt) == DaysFromTo(Date(2024, 1, 6), dt) % 7 = 0
IsSunday(dt) == DaysFromTo(Date(2024, 1, 7), dt) % 7 = 0

\* The text has the word w at position p.
Occurs(text, w, p) ==
    /\ p >= 1 /\ p + Len(w) - 1 <= Len(text)
    /\ \A k \in 1..Len(w) : text[p + k - 1] = w[k]

\* The text holds the words one after the other, from position p on.
RECURSIVE HoldsInOrder(_, _, _)
HoldsInOrder(text, p, words) ==
    \/ Len(words) = 0
    \/ \E q \in p..Len(text) :
          /\ Occurs(text, Head(words), q)
          /\ HoldsInOrder(text, q + Len(Head(words)), Tail(words))

---------------------------------------------------------------------------
(* C1, C2: the upcoming birthdays *)

\* The latest call of get_upcoming_birthdays and the names it returned; a
\* call that raised returned nothing.
Returned7 == scan # <<>> /\ scan[1].ok
EntryNames == {scan[1].entries[k].name : k \in 1..Len(scan[1].entries)}

\* The stored birthday of a record, as a date.
BirthdayOf(rec) == Strptime(rec.birthday[1]).date

\* C1 (as claimed): after a scan, a record with a birthday has an entry in
\* the result if and only if the days from today to the next occurrence of
\* its birthday lie in 0..days, whatever other records there are.
C1_AsClaimed ==
    scan # <<>> =>
        \A i \in 1..Len(book) :
            Len(book[i].record.birthday) > 0 =>
                ( (book[i].record.name \in EntryNames)
                  <=> DaysFromTo(scan[1].today,
                                 NextOccurrence(BirthdayOf(book[i].record), scan[1].today))
                        \in 0..scan[1].days )

\* C2: every entry of a scan that returned reports the next occurrence of
\* the record's birthday, moved 2 days on from a Saturday and 1 day on from
\* a Sunday; the reported day is no Saturday or Sunday, not before today and
\* at most days + 2 after today, and the occurrence itself is in 0..days.
C2_WeekendShift ==
    Returned7 =>
        \A k \in 1..Len(scan[1].entries) :
            LET e == scan[1].entries[k]
                today == scan[1].today
                i == At(book, e.name)
                occ == NextOccurrence(BirthdayOf(book[i].record), today)
                reported == Strptime(e.birthday)
                shift == IF IsSaturday(occ) THEN 2 ELSE IF IsSunday(occ) THEN 1 ELSE 0
            IN  /\ i # 0 /\ Len(book[i].record.birthday) > 0
                /\ IsDDMMYYYY(e.birthday)
                /\ reported.ok
                /\ DaysFromTo(occ, reported.date) = shift
                /\ ~IsSaturday(reported.date) /\ ~IsSunday(reported.date)
                /\ DaysFromTo(today, reported.date) >= 0
                /\ DaysFromTo(today, reported.date) <= scan[1].days + 2
                /\ DaysFromTo(today, occ) \in 0..scan[1].days

\* A scan returned two entries, one moved from a Saturday at the very end
\* of the window to the Monday after it.
C2_Witness ==
    /\ Returned7
    /\ Len(scan[1].entries) = 2
    /\ \E k \in 1..2 :
          LET occ == NextOccurrence(BirthdayOf(book[At(book, scan[1].entries[k].name)].record),
                                    scan[1].today)
          IN  /\ IsSaturday(occ)
              /\ DaysFromTo(scan[1].today, occ) = scan[1].days
              /\ DaysFromTo(scan[1].today, Strptime(scan[1].entries[k].birthday).date)
                    = scan[1].days + 2

---------------------------------------------------------------------------
(* C3, C8: the field constructors *)

\* C3 (as claimed): Phone construction succeeds if and only if the value is
\* a string of exactly 10 decimal digits, and a failure creates no Phone.
C3_AsClaimed ==
    (field # <<>> /\ field[1].kind = "Phone") =>
        /\ field[1].ok <=> TenDecimalDigits(typed)
        /\ field[1].ok => field[1].value = typed
        /\ ~field[1].ok => (field[1].value = <<>> /\ field[1].error # <<>>)

\* C8 (as claimed): Birthday construction fails for every string that is
\* not a valid calendar date written DD.MM.YYYY, and the value it stores
\* for an accepted string parses and formats back to that same string.
C8_AsClaimed ==
    (field # <<>> /\ field[1].kind = "Birthday") =>
        /\ ~IsDDMMYYYY(typed) => ~field[1].ok
        /\ field[1].ok => Strftime(Strptime(field[1].value).date) = field[1].value

---------------------------------------------------------------------------
(* C4, C5, C7, C9, C10: the handlers *)

\* The messages of the three kinds of error.
IsNotFoundMessage(text) ==
    \/ text = <<"Phone not found">>
    \/ Len(text) >= 2 /\ text[1] = "Contact [" /\ text[Len(text)] = "] not found."

IsUsageMessage(text) ==
    text \in {UsageAdd, UsageChange, UsagePhone, UsageAddBirthday, UsageShowBirthday,
              NotEnoughArgs}

IsFormatMessage(text) ==
    \/ text \in {PhoneOnlyDigitsMsg, PhoneLenMsg, BirthdayMsg, DayOutOfRange}
    \/ Len(text) >= 1 /\ text[1] = "Invalid new phone: "

\* The first position of the phone in the phones of a record, 0 for none.
FirstAt(phones, p) ==
    IF \E k \in 1..Len(phones) : phones[k] = p
    THEN CHOOSE k \in 1..Len(phones) : phones[k] = p /\ \A j \in 1..(k - 1) : phones[j] # p
    ELSE 0

\* The directory after is the directory b with the phones of record i
\* replaced by phones, and nothing else changed.
OnlyPhonesOf(b, i, phones, after) ==
    /\ Len(after) = Len(b)
    /\ \A j \in 1..Len(b) : j # i => after[j] = b[j]
    /\ after[i].key = b[i].key
    /\ after[i].record.name = b[i].record.name
    /\ after[i].record.birthday = b[i].record.birthday
    /\ after[i].record.phones = phones

\* C4: change with three arguments. With a record of that name holding old
\* and a valid new, the first phone equal to old becomes new where it stood
\* and nothing else changes; without such a record the answer is a
\* not-found message, without old among its phones it is "Phone not found",
\* and in both cases the directory is as it was.
C4_Change ==
    (Answered /\ command \in ChangeCommands /\ Len(args) = 3) =>
        LET i == At(before, args[1])
            k == FirstAt(before[i].record.phones, args[2])
        IN  /\ i = 0 => (book = before /\ IsNotFoundMessage(out) /\ out # <<"Phone not found">>)
            /\ (i # 0 /\ k = 0) => (book = before /\ out = <<"Phone not found">>)
            /\ (i # 0 /\ k # 0 /\ TenDecimalDigits(args[3])) =>
                  OnlyPhonesOf(before, i,
                               [j \in 1..Len(before[i].record.phones) |->
                                   IF j = k THEN args[3] ELSE before[i].record.phones[j]],
                               book)

\* A change replaced the first of two equal phones, in a record with a
\* birthday, beside another record.
C4_Witness ==
    /\ Answered /\ command \in ChangeCommands /\ Len(args) = 3
    /\ Len(book) = 2
    /\ At(before, args[1]) # 0
    /\ LET rec == before[At(before, args[1])].record
       IN  /\ Len(rec.birthday) > 0
           /\ Len(rec.phones) = 2
           /\ rec.phones[1] = args[2] /\ rec.phones[2] = args[2]
    /\ TenDecimalDigits(args[3])
    /\ book # before

\* C5 (as claimed): add, change, phone, add-birthday and show-birthday
\* called with another number of arguments than 2, 3, 1, 2 and 1 answer
\* with their own usage message and leave the directory as it was.
C5_AsClaimed ==
    Answered =>
        /\ (command \in AddCommands /\ Len(args) # 2) => (out = UsageAdd /\ book = before)
        /\ (command \in ChangeCommands /\ Len(args) # 3) =>
              (out = UsageChange /\ book = before)
        /\ (command \in PhoneCommands /\ Len(args) # 1) => (out = UsagePhone /\ book = before)
        /\ (command \in AddBirthdayCommands /\ Len(args) # 2) =>
              (out = UsageAddBirthday /\ book = before)
        /\ (command \in ShowBirthdayCommands /\ Len(args) # 1) =>
              (out = UsageShowBirthday /\ book = before)

\* What phone([name]) returns on the directory b.
PhoneReply(b, name) == InputError("phone", <<name>>, PhoneBody(<<name>>, b))

\* C7: add with a name and a valid phone. Without a record of that name a
\* record holding exactly that phone is created; with one, the phone goes
\* to the end of its phones; nothing else changes, and phone([name]) then
\* returns a string holding the record's phones in the order they were added.
C7_Add ==
    (Answered /\ command \in AddCommands /\ Len(args) = 2 /\ TenDecimalDigits(args[2])) =>
        LET i == At(before, args[1])
        IN  /\ i = 0 =>
                  /\ Len(book) = Len(before) + 1
                  /\ \A j \in 1..Len(before) : book[j] = before[j]
                  /\ book[Len(book)] =
                        [key |-> args[1],
                         record |-> [name |-> args[1], phones |-> <<args[2]>>,
                                     birthday |-> <<>>]]
            /\ i # 0 =>
                  OnlyPhonesOf(before, i, Append(before[i].record.phones, args[2]), book)
            /\ At(book, args[1]) # 0
            /\ HoldsInOrder(PhoneReply(book, args[1]), 1,
                            (IF i = 0 THEN <<>> ELSE before[i].record.phones) \o <<args[2]>>)

\* An add put a second, different phone after the first one of a record
\* with a birthday, beside another record.
C7_Witness ==
    /\ Answered /\ command \in AddCommands /\ Len(args) = 2 /\ TenDecimalDigits(args[2])
    /\ Len(book) = 2
    /\ At(before, args[1]) # 0
    /\ LET rec == before[At(before, args[1])].record
       IN  /\ Len(rec.birthday) > 0
           /\ Len(rec.phones) = 1
           /\ rec.phones[1] # args[2]
    /\ book # before

\* C9 (as claimed): a command that answers with an error message leaves the
\* directory as it was before the command.
C9_AsClaimed ==
    (Answered /\ (IsNotFoundMessage(out) \/ IsUsageMessage(out) \/ IsFormatMessage(out)))
        => book = before

\* C10 (as claimed): every key maps to the record of that name, no name has
\* two records, every stored phone is a string of exactly 10 decimal digits
\* and every stored birthday is accepted by Birthday construction.
C10_AsClaimed ==
    /\ \A i \in 1..Len(book) : book[i].key = book[i].record.name
    /\ \A i, j \in 1..Len(book) : book[i].key = book[j].key => i = j
    /\ \A i \in 1..Len(book) :
          /\ \A k \in 1..Len(book[i].record.phones) :
                TenDecimalDigits(book[i].record.phones[k])
          /\ Len(book[i].record.birthday) <= 1
          /\ \A k \in 1..Len(book[i].record.birthday) :
                Birthday(book[i].record.birthday[k]).ok

---------------------------------------------------------------------------
(* C6: the loop *)

\* The first token of the line, lower-cased, is close, exit or bye.
IsExitLine(l) == Len(l) > 0 /\ Lower(l[1]) \in {wClose, wExit, wBye}

\* In every state: the loop is Terminated exactly when the latest line read
\* has an exit verb; every other line is answered with a message and leaves
\* the loop Running, whatever its handler raised.
LoopState ==
    /\ mode \in {"Running", "Terminated"}
    /\ mode = "Terminated" <=> IsExitLine(line)
    /\ (Answered /\ ~IsExitLine(line)) => (mode = "Running" /\ Len(out) > 0)
    /\ (Answered /\ IsExitLine(line)) => (out = GoodBye /\ book = before)

\* C6: the loop is Terminated exactly when a line with an exit verb has
\* been read, and no line is read once it is Terminated (every step starts
\* in a Running loop), so reading stops at the first such line; every other
\* line prints a message and leaves the loop Running, so no handler failure
\* is fatal.
C6_Loop == [](LoopState) /\ [][mode = "Running"]_vars

\* The loop ended on an upper-case exit verb with arguments, after a
\* directory had been built.
C6_Witness ==
    /\ mode = "Terminated"
    /\ line = <<wEXIT, Ann>>
    /\ Len(book) = 2

====
